---- MODULE Spec2Model ----
(***************************************************************************)
(* Model of miner.go: the scheduler loop of main, the tip observer         *)
(* pollBestBlockTime and the mining invoker generate, together with the    *)
(* remote service and the passage of time.                                 *)
(*                                                                         *)
(* Durations are counted in units of 50 ms (100 ms = 2, 15 s = 300,        *)
(* 16 s = 320).  Instants are kept relative to the current instant: a      *)
(* deadline or timer is the time left until it expires, the tip timestamp  *)
(* is kept as its age (now - tipTime).  Time passes by the Tick action,    *)
(* which is enabled in every state: the Go scheduler gives no bound on     *)
(* when a runnable goroutine runs, so no step of the program is urgent.    *)
(***************************************************************************)
EXTENDS Integers, Sequences, FiniteSets, TLC

VARIABLES
    targetBlockTime,  \* flag -blocktime
    retryDuration,    \* flag -retry
    pc,               \* position of the main goroutine
    pollCtx,          \* pollBestBlockTime: time left on its context
    tipAge,           \* now - tipTime of the header last observed
    decision,         \* outcome of the last planning step
    planAge,          \* tipAge read by the last planning step
    pollErr,          \* err returned by the last pollBestBlockTime
    sleepRem,         \* time left of the time.Sleep in progress
    sleepArg,         \* argument of the last time.Sleep
    sleepWhy,         \* which time.Sleep of main that was
    nextPoll,         \* nextPoll as logged, relative to the instant it was computed
    genCtx,           \* generate: time left on its 16 s context
    timer,            \* generate: time left until t.C is ready
    call,             \* the asynchronous call of generate 1
    pendingMine,      \* number of generate 1 requests not yet completed
    stopCtx,          \* time left on the context of generate 0
    stopRes,          \* state and err of c.Call(ctx, "generate", nil, 0) in this attempt
    stopIssued,       \* number of generate 0 requests issued in this attempt
    pendingStop,      \* number of generate 0 requests not yet returned
    stopDelivered,    \* the remote has received the generate 0 of this attempt
    stopped,          \* local variable stopped of generate
    doneBeforeFire,   \* the generate 1 call completed while t.C was not ready
    ret,              \* what generate returned
    logged,           \* log lines of generate about the request's error
    minedLogs,        \* "generate: mined block" lines logged in this cycle
    calls,            \* remote calls issued in this cycle, in order
    prevAttempt,      \* how the latest mining attempt of an earlier cycle ended
    lastSleep,        \* which time.Sleep ended the cycle before, until generate starts
    obsFails,         \* pollBestBlockTime errors since its last success
    retrySleeps,      \* time.Sleep(*retryDuration) calls since that success
    pollElapsed,      \* time spent in the current pollBestBlockTime
    sinceMined        \* time since main last logged a mined block, -1 if not awaited

cfgVars  == <<targetBlockTime, retryDuration>>
pollVars == <<pollCtx, tipAge, decision, planAge, pollErr>>
sleepVars == <<sleepRem, sleepArg, sleepWhy, nextPoll>>
genVars  == <<genCtx, timer, call, pendingMine, doneBeforeFire, ret, logged>>
stopVars == <<stopCtx, stopRes, stopIssued, pendingStop, stopDelivered, stopped>>
streakVars == <<obsFails, retrySleeps>>
vars == <<cfgVars, pc, pollVars, sleepVars, genVars, stopVars,
          minedLogs, calls, prevAttempt, lastSleep, streakVars, pollElapsed,
          sinceMined>>

---------------------------------------------------------------------------
(* Bounds of the model *)

\* flag values: 1..MaxDuration units
MaxDuration == 2
\* the remote's header time is at most this far ahead of the local clock
MaxSkew == 2
\* longest list of hashes the remote returns for generate 1
MaxHashes == 2
\* consecutive failures of pollBestBlockTime that are counted
MaxFails == 2

(* Program constants, in units of 50 ms *)

\* context.WithTimeout(ctx, 100*time.Millisecond)
CallTimeout == 2
\* context.WithTimeout(ctx, 16*time.Second)
GenerateTimeout == 320
\* time.NewTimer(15 * time.Second)
WatchdogTimeout == 300
\* Truncate(100 * time.Millisecond)
LogGranularity == 2

Durations == 1..MaxDuration
MaxTipAge == MaxDuration + 1
TipAges == (0 - MaxSkew)..MaxTipAge

NoErr == <<>>
Hashes == {"abc123", "def456"}
HashLists == UNION {[1..n -> Hashes] : n \in 0..MaxHashes}

\* an error of a remote call: the method and what went wrong
Err(method, kind) == <<method, kind>>
\* fmt.Errorf("getbestblockhash: %w", err)
Wrap(prefix, e) == <<prefix>> \o e

Min(a, b) == IF a <= b THEN a ELSE b
\* a counter of the model, counted up to its bound
Count(x, max) == IF x < max THEN x + 1 ELSE max
Dec(x) == IF x > 0 THEN x - 1 ELSE 0

NoCall == [issued |-> FALSE, done |-> FALSE, err |-> NoErr, hashes |-> <<>>]
NoRet == [hash |-> "", err |-> NoErr]
NoStop == [state |-> "none", err |-> NoErr]

---------------------------------------------------------------------------
Init ==
    /\ targetBlockTime \in Durations
    /\ retryDuration \in Durations
    /\ pc = "poll"
    /\ pollCtx = 0
    /\ tipAge = 0
    /\ decision = "none"
    /\ planAge = 0
    /\ pollErr = NoErr
    /\ sleepRem = 0
    /\ sleepArg = 0
    /\ sleepWhy = "none"
    /\ nextPoll = 0
    /\ genCtx = 0
    /\ timer = 0
    /\ call = NoCall
    /\ pendingMine = 0
    /\ stopCtx = 0
    /\ stopRes = NoStop
    /\ stopIssued = 0
    /\ pendingStop = 0
    /\ stopDelivered = FALSE
    /\ stopped = FALSE
    /\ doneBeforeFire = FALSE
    /\ ret = NoRet
    /\ logged = {}
    /\ minedLogs = 0
    /\ calls = <<>>
    /\ prevAttempt = "none"
    /\ lastSleep = "none"
    /\ obsFails = 0
    /\ retrySleeps = 0
    /\ pollElapsed = 0
    /\ sinceMined = 0 - 1

---------------------------------------------------------------------------
(* The remote service and the RPC channel *)

\* What a synchronous c.Call returns: nil, or an error; once the context
\* has expired the call returns the context's error.
CallOutcomes(method, ctxLeft) ==
    IF ctxLeft = 0
    THEN {Err(method, "deadline exceeded")}
    ELSE {NoErr, Err(method, "rpc error"), Err(method, "transport")}

\* How the asynchronous generate 1 call can complete: a list of hashes, or
\* an error.  The remote aborts the request with "stopped" only after it
\* has received the generate 0 of this attempt.
MineOutcomes ==
    IF genCtx = 0
    THEN {[err |-> Err("generate", "deadline exceeded"), hashes |-> <<>>]}
    ELSE {[err |-> NoErr, hashes |-> hs] : hs \in HashLists}
         \cup {[err |-> Err("generate", k), hashes |-> <<>>] :
                 k \in {"rpc error", "transport"}
                       \cup (IF stopDelivered THEN {"stopped"} ELSE {})}

\* call.Done() can be received from
CallDone == call.done

\* call.Result() yields the final result of the call
ResultReady == call.done

---------------------------------------------------------------------------
(* time.Sleep(d) *)
StartSleep(d, why) ==
    /\ pc' = "sleeping"
    /\ sleepRem' = IF d > 0 THEN d ELSE 0
    /\ sleepArg' = d
    /\ sleepWhy' = why

\* t.Truncate(m)
Truncate(t, m) == t - (t % m)

---------------------------------------------------------------------------
(* pollBestBlockTime and its call in main *)

\* variant: main retries the observation at once, without the sleep
ObserveFailedSkipsSleep(e) ==
    /\ pollErr' = e
    /\ pollCtx' = 0
    /\ pc' = "poll"
    /\ obsFails' = Count(obsFails, MaxFails)
    /\ UNCHANGED <<tipAge, decision, planAge, sleepVars, calls, retrySleeps>>

\* main: pollBestBlockTime returned an error
ObserveFailed(e) ==
    /\ pollErr' = e
    /\ pollCtx' = 0
    /\ StartSleep(retryDuration, "observe_failed")
    /\ obsFails' = Count(obsFails, MaxFails)
    /\ retrySleeps' = Count(retrySleeps, MaxFails)
    /\ UNCHANGED <<tipAge, decision, planAge, nextPoll, calls>>

\* top of the loop: pollBestBlockTime starts and calls getbestblockhash
PollBegin ==
    /\ pc = "poll"
    /\ pc' = "hash_wait"
    /\ pollCtx' = CallTimeout
    /\ calls' = <<"getbestblockhash">>
    /\ pollElapsed' = 0
    /\ UNCHANGED <<cfgVars, prevAttempt, tipAge, decision, planAge, pollErr, sleepVars,
                   genVars, stopVars, minedLogs, lastSleep, streakVars, sinceMined>>

\* variant: getblockheader is called with a context of its own
HeaderCtxFresh == CallTimeout

\* the context of getblockheader is the one of getbestblockhash
HeaderCtx == pollCtx

\* getbestblockhash returns; on success getblockheader is called
HashReturn ==
    /\ pc = "hash_wait"
    /\ \E out \in CallOutcomes("getbestblockhash", pollCtx) :
         IF out # NoErr
         THEN ObserveFailed(Wrap("getbestblockhash", out))
         ELSE /\ pc' = "header_wait"
              /\ calls' = Append(calls, "getblockheader")
              /\ pollCtx' = HeaderCtx
              /\ UNCHANGED <<tipAge, decision, planAge, pollErr, sleepVars,
                             streakVars>>
    /\ UNCHANGED <<cfgVars, prevAttempt, genVars, stopVars, minedLogs, lastSleep,
                   pollElapsed, sinceMined>>

\* getblockheader returns; on success the header's time is the tip time
HeaderReturn ==
    /\ pc = "header_wait"
    /\ \E out \in CallOutcomes("getblockheader", pollCtx) :
         IF out # NoErr
         THEN ObserveFailed(Wrap("getblockheader", out))
         ELSE /\ pc' = "plan"
              /\ pollCtx' = 0
              /\ \E age \in TipAges : tipAge' = age
              /\ obsFails' = 0
              /\ retrySleeps' = 0
              /\ UNCHANGED <<decision, planAge, pollErr, sleepVars, calls>>
    /\ UNCHANGED <<cfgVars, prevAttempt, genVars, stopVars, minedLogs, lastSleep,
                   pollElapsed, sinceMined>>

---------------------------------------------------------------------------
(* The planning step of main *)

\* time.Until(mineTime), mineTime := tipTime.Add(*targetBlockTime)
Wait == targetBlockTime - tipAge

\* variant: the boundary wait = 0 also sleeps
PollAgainInclusive(wait) == wait >= 0

\* the condition under which main sleeps and polls again
PollAgain(wait) == wait > 0

Plan ==
    /\ pc = "plan"
    /\ planAge' = tipAge
    /\ tipAge' = 0
    /\ IF PollAgain(Wait)
       THEN /\ decision' = "POLL_AGAIN"
            /\ StartSleep(Wait, "poll_again")
            /\ UNCHANGED nextPoll
       ELSE /\ decision' = "MINE_NOW"
            /\ pc' = "generate"
            /\ UNCHANGED sleepVars
    /\ pollElapsed' = 0
    /\ UNCHANGED <<cfgVars, prevAttempt, pollCtx, pollErr, genVars, stopVars,
                   minedLogs, calls, lastSleep, streakVars, sinceMined>>

\* how the mining attempt of the cycle that ends was resolved, if it had one
AttemptEnd ==
    IF ~call.issued THEN prevAttempt
    ELSE IF stopRes.state = "failed" THEN "stop_failed"
    ELSE IF call.err = Err("generate", "deadline exceeded") THEN "deadline"
    ELSE "other"

\* variant: after the sleep of a POLL_AGAIN plan main goes on to mine
AfterSleepMines == IF sleepWhy = "poll_again" THEN "generate" ELSE "poll"

\* continue, or the end of the loop body: the next cycle starts at the top
AfterSleep == "poll"

\* time.Sleep returns and the loop starts its next cycle; what the model
\* recorded about the cycle that ends is forgotten
Wake ==
    /\ pc = "sleeping"
    /\ sleepRem = 0
    /\ pc' = AfterSleep
    /\ lastSleep' = sleepWhy
    /\ pollElapsed' = 0
    /\ decision' = "none"
    /\ planAge' = 0
    /\ pollErr' = NoErr
    /\ sleepArg' = 0
    /\ sleepWhy' = "none"
    /\ nextPoll' = 0
    /\ call' = IF call.done THEN NoCall ELSE call
    /\ doneBeforeFire' = FALSE
    /\ ret' = NoRet
    /\ logged' = {}
    /\ stopRes' = NoStop
    /\ stopIssued' = 0
    /\ stopDelivered' = FALSE
    /\ stopped' = FALSE
    /\ minedLogs' = 0
    /\ calls' = <<>>
    /\ prevAttempt' = AttemptEnd
    /\ UNCHANGED <<cfgVars, pollCtx, tipAge, sleepRem, genCtx, timer,
                   pendingMine, stopCtx, pendingStop, streakVars, sinceMined>>

---------------------------------------------------------------------------
(* generate *)

\* generate starts: the 16 s context, c.Go(ctx, "generate", &hashes, nil, 1)
\* and the 15 s timer
GenerateBegin ==
    /\ pc = "generate"
    /\ pc' = "select"
    /\ genCtx' = GenerateTimeout
    /\ timer' = WatchdogTimeout
    /\ call' = [issued |-> TRUE, done |-> FALSE, err |-> NoErr, hashes |-> <<>>]
    /\ pendingMine' = pendingMine + 1
    /\ doneBeforeFire' = FALSE
    /\ calls' = Append(calls, "generate 1")
    /\ stopCtx' = 0
    /\ stopRes' = NoStop
    /\ stopIssued' = 0
    /\ stopDelivered' = FALSE
    /\ stopped' = FALSE
    /\ planAge' = 0
    /\ lastSleep' = "none"
    /\ sinceMined' = 0 - 1
    /\ UNCHANGED <<cfgVars, prevAttempt, pollCtx, tipAge, decision, pollErr,
                   sleepVars, ret, logged, pendingStop, minedLogs, streakVars,
                   pollElapsed>>

\* the generate 1 call completes: the remote answers, the transport fails
\* or the call's context expires
MineComplete ==
    /\ call.issued
    /\ ~call.done
    /\ \E r \in MineOutcomes :
         call' = [issued |-> TRUE, done |-> TRUE, err |-> r.err, hashes |-> r.hashes]
    /\ pendingMine' = pendingMine - 1
    /\ doneBeforeFire' = (timer > 0)
    /\ UNCHANGED <<cfgVars, prevAttempt, pc, pollVars, sleepVars, genCtx, timer, ret,
                   logged, stopVars, minedLogs, calls, lastSleep, streakVars, pollElapsed, sinceMined>>

\* variant: the select does not wait for a case to be ready
SelectCasesAlways == {"done", "timer"}

\* the cases of the select statement that can proceed
SelectCases ==
    {c \in {"done", "timer"} : \/ c = "done" /\ CallDone
                               \/ c = "timer" /\ timer = 0}

\* case <-t.C: up to the start of c.Call(ctx, "generate", nil, 0), whose
\* context is derived from the 16 s context
StopBegin ==
    /\ pc' = "stop_wait"
    /\ stopCtx' = Min(CallTimeout, genCtx)
    /\ stopRes' = [state |-> "pending", err |-> NoErr]
    /\ stopIssued' = stopIssued + 1
    /\ pendingStop' = pendingStop + 1
    /\ calls' = Append(calls, "generate 0")
    /\ UNCHANGED <<stopDelivered, stopped>>

\* the select statement: one of the cases that can proceed is chosen
Select ==
    /\ pc = "select"
    /\ \E c \in SelectCases :
         IF c = "done"
         THEN /\ pc' = "result"
              /\ UNCHANGED <<stopVars, calls>>
         ELSE StopBegin
    /\ UNCHANGED <<cfgVars, prevAttempt, pollVars, sleepVars, genVars, minedLogs,
                   lastSleep, streakVars, pollElapsed, sinceMined>>

\* the remote receives generate 0 and disables its miner
RemoteStop ==
    /\ pc = "stop_wait"
    /\ stopCtx > 0
    /\ ~stopDelivered
    /\ stopDelivered' = TRUE
    /\ UNCHANGED <<cfgVars, prevAttempt, pc, pollVars, sleepVars, genVars, stopCtx,
                   stopRes, stopIssued, pendingStop, stopped, minedLogs, calls,
                   lastSleep, streakVars, pollElapsed, sinceMined>>

\* variant: a failed stop request ends generate with the stop request's error
StopFailedReturns(e) ==
    /\ pc' = "returned"
    /\ logged' = logged \cup {"failed to disable CPU miner"}
    /\ ret' = [hash |-> "", err |-> e]
    /\ genCtx' = 0
    /\ timer' = 0
    /\ UNCHANGED stopped

\* variant: stopped is set before the stop request's error is looked at
StopFailedMarks(e) ==
    /\ pc' = "result"
    /\ logged' = logged \cup {"failed to disable CPU miner"}
    /\ stopped' = TRUE
    /\ UNCHANGED <<ret, genCtx, timer>>

\* if err != nil { log.Printf("failed to disable CPU miner: %v", err); break }
StopFailed(e) ==
    /\ pc' = "result"
    /\ logged' = logged \cup {"failed to disable CPU miner"}
    /\ UNCHANGED <<stopped, ret, genCtx, timer>>

\* stopped = true, then <-call.Done()
StopSucceeded ==
    /\ pc' = "wait_done"
    /\ stopped' = TRUE
    /\ UNCHANGED <<logged, ret, genCtx, timer>>

\* c.Call(ctx, "generate", nil, 0) returns
StopReturn ==
    /\ pc = "stop_wait"
    /\ \E out \in CallOutcomes("generate 0", stopCtx) :
         /\ out = NoErr => stopDelivered
         /\ stopRes' = [state |-> IF out = NoErr THEN "ok" ELSE "failed", err |-> out]
         /\ IF out # NoErr THEN StopFailed(out) ELSE StopSucceeded
    /\ pendingStop' = pendingStop - 1
    /\ stopCtx' = 0
    /\ UNCHANGED <<cfgVars, prevAttempt, pollVars, sleepVars, call, pendingMine,
                   doneBeforeFire, stopIssued, stopDelivered, minedLogs, calls,
                   lastSleep, streakVars, pollElapsed, sinceMined>>

\* <-call.Done() after the stop request
WaitDone ==
    /\ pc = "wait_done"
    /\ CallDone
    /\ pc' = "result"
    /\ UNCHANGED <<cfgVars, prevAttempt, pollVars, sleepVars, genVars, stopVars,
                   minedLogs, calls, lastSleep, streakVars, pollElapsed, sinceMined>>

\* variant: the request's error is logged whether or not stopped is set
ResultValueAlwaysLogs ==
    IF call.err # NoErr
    THEN [panic |-> FALSE, hash |-> "", err |-> call.err, logs |-> {"generate: error"}]
    ELSE IF Len(call.hashes) = 0
         THEN [panic |-> TRUE, hash |-> "", err |-> NoErr, logs |-> {}]
         ELSE [panic |-> FALSE, hash |-> call.hashes[1], err |-> NoErr, logs |-> {}]

\* variant: an error of a stopped attempt is dropped
ResultValueSwallows ==
    IF call.err # NoErr /\ ~stopped
    THEN [panic |-> FALSE, hash |-> "", err |-> call.err, logs |-> {"generate: error"}]
    ELSE IF Len(call.hashes) = 0
         THEN [panic |-> FALSE, hash |-> "", err |-> NoErr, logs |-> {}]
         ELSE [panic |-> FALSE, hash |-> call.hashes[1], err |-> NoErr, logs |-> {}]

\* variant: a stopped attempt is reported as failed even when a block was found
ResultValueStopIsError ==
    IF call.err # NoErr \/ stopped
    THEN [panic |-> FALSE, hash |-> "",
          err |-> IF call.err # NoErr THEN call.err ELSE Err("generate", "stopped"),
          logs |-> IF ~stopped THEN {"generate: error"} ELSE {}]
    ELSE IF Len(call.hashes) = 0
         THEN [panic |-> TRUE, hash |-> "", err |-> NoErr, logs |-> {}]
         ELSE [panic |-> FALSE, hash |-> call.hashes[1], err |-> NoErr, logs |-> {}]

\* _, err := call.Result() and what generate does with it
ResultValue ==
    IF call.err # NoErr
    THEN [panic |-> FALSE, hash |-> "", err |-> call.err,
          logs |-> IF ~stopped THEN {"generate: error"} ELSE {}]
    ELSE IF Len(call.hashes) = 0
         THEN [panic |-> TRUE, hash |-> "", err |-> NoErr, logs |-> {}]
         ELSE [panic |-> FALSE, hash |-> call.hashes[1], err |-> NoErr, logs |-> {}]

\* generate returns (or faults on hashes[0]); the deferred t.Stop() and
\* cancel() run
GenerateReturn ==
    /\ pc = "result"
    /\ ResultReady
    /\ LET r == ResultValue IN
         /\ pc' = IF r.panic THEN "panicked" ELSE "returned"
         /\ ret' = [hash |-> r.hash, err |-> r.err]
         /\ logged' = logged \cup r.logs
    /\ genCtx' = 0
    /\ timer' = 0
    /\ UNCHANGED <<cfgVars, prevAttempt, pollVars, sleepVars, call, pendingMine,
                   doneBeforeFire, stopVars, minedLogs, calls, lastSleep, streakVars, pollElapsed, sinceMined>>

---------------------------------------------------------------------------
(* main after generate *)

\* variant: the retry duration is used as it is
ErrorSleepRetry == retryDuration

\* sleep = min(*retryDuration, *targetBlockTime)
ErrorSleep == Min(retryDuration, targetBlockTime)

\* sleep = *targetBlockTime
SuccessSleep == targetBlockTime

\* time.Now().Add(sleep).Truncate(100 * time.Millisecond), relative to now,
\* when now is phase units past a multiple of 100 ms
NextPoll(phase, sleep) == Truncate(phase + sleep, LogGranularity) - phase

\* variant: main sleeps until the instant it logged
SleepArgLogged(phase, sleep) == NextPoll(phase, sleep)

\* time.Sleep(sleep): the duration slept is the one computed, whatever
\* instant was logged
SleepArg(phase, sleep) == sleep

AfterGenerate ==
    /\ pc = "returned"
    /\ \E phase \in 0..(LogGranularity - 1) :
         IF ret.err # NoErr
         THEN /\ StartSleep(SleepArg(phase, ErrorSleep), "mine_failed")
              /\ nextPoll' = NextPoll(phase, ErrorSleep)
              /\ UNCHANGED <<minedLogs, sinceMined>>
         ELSE /\ minedLogs' = minedLogs + 1
              /\ sinceMined' = 0
              /\ StartSleep(SleepArg(phase, SuccessSleep), "mined")
              /\ nextPoll' = NextPoll(phase, SuccessSleep)
    /\ UNCHANGED <<cfgVars, prevAttempt, pollVars, genVars, stopVars, calls,
                   lastSleep, streakVars, pollElapsed>>

---------------------------------------------------------------------------
(* Time *)

\* one unit of time passes
Tick ==
    /\ pollCtx' = Dec(pollCtx)
    /\ tipAge' = IF pc = "plan" THEN Min(tipAge + 1, MaxTipAge) ELSE tipAge
    /\ sleepRem' = Dec(sleepRem)
    /\ genCtx' = Dec(genCtx)
    /\ timer' = Dec(timer)
    /\ stopCtx' = Dec(stopCtx)
    /\ pollElapsed' = IF pc \in {"hash_wait", "header_wait"}
                      THEN Count(pollElapsed, 2 * CallTimeout)
                      ELSE pollElapsed
    /\ sinceMined' = IF sinceMined < 0 THEN sinceMined
                     ELSE Count(sinceMined, MaxDuration)
    /\ UNCHANGED <<cfgVars, prevAttempt, pc, decision, planAge, pollErr, sleepArg, sleepWhy,
                   nextPoll, call, pendingMine, doneBeforeFire, ret, logged,
                   stopRes, stopIssued, pendingStop, stopDelivered, stopped,
                   minedLogs, calls, lastSleep, streakVars>>

---------------------------------------------------------------------------
Next ==
    \/ PollBegin
    \/ HashReturn
    \/ HeaderReturn
    \/ Plan
    \/ Wake
    \/ GenerateBegin
    \/ MineComplete
    \/ Select
    \/ RemoteStop
    \/ StopReturn
    \/ WaitDone
    \/ GenerateReturn
    \/ AfterGenerate
    \/ Tick

Spec == Init /\ [][Next]_vars

\* Every step of the program that can be taken is taken in the end, the
\* remote call in flight completes (at the latest by its context) and time
\* goes on.
Fairness ==
    /\ WF_vars(PollBegin) /\ WF_vars(HashReturn) /\ WF_vars(HeaderReturn)
    /\ WF_vars(Plan) /\ WF_vars(Wake) /\ WF_vars(GenerateBegin)
    /\ WF_vars(MineComplete) /\ WF_vars(Select) /\ WF_vars(StopReturn)
    /\ WF_vars(WaitDone) /\ WF_vars(GenerateReturn) /\ WF_vars(AfterGenerate)
    /\ WF_vars(Tick)

FairSpec == Spec /\ Fairness

---------------------------------------------------------------------------
(* Properties *)

\* generate has returned to main and main has not yet started its next cycle
Returned == pc \in {"returned", "sleeping"} /\ call.issued

\* what generate returns for the call's result, whatever else happened
OwnResult ==
    [hash |-> IF call.err = NoErr /\ Len(call.hashes) > 0 THEN call.hashes[1] ELSE "",
     err |-> call.err]

\* C1: if the generate 1 call completes before the watchdog timer fires, no
\* generate 0 is issued in that attempt.
C1_NoStopAfterEarlyCompletion == doneBeforeFire => stopIssued = 0

\* C2: when generate returns, its generate 1 call has completed (in the
\* branch of the completion, of the successful stop request and of the
\* failed stop request alike) and the value returned is the call's result.
C2_ReturnsAfterCompletion ==
    Returned => /\ call.done
                /\ pendingMine = 0
                /\ ret = OwnResult

C2_Witness ==
    /\ pc = "returned"
    /\ stopRes.state = "failed"
    /\ ~doneBeforeFire
    /\ call.done

\* C3: at most one generate 1 request is in flight at any time, and none is
\* in flight when generate is entered, also after an attempt whose stop
\* request failed or whose request ended by its deadline.
C3_OneAttemptInFlight ==
    /\ pendingMine <= 1
    /\ pc \notin {"select", "stop_wait", "wait_done", "result"} => pendingMine = 0

C3_Witness ==
    /\ pc = "select"
    /\ pendingMine = 1
    /\ prevAttempt = "stop_failed"

\* C4: generate 0 is issued only while the generate 1 request is outstanding
\* and has been outstanding for at least the watchdog time, at most once per
\* attempt and never while another generate 0 is outstanding.
C4_StopOnlyWhileOutstanding ==
    [][stopIssued' > stopIssued =>
         /\ ~call.done
         /\ pendingMine = 1
         /\ GenerateTimeout - genCtx >= WatchdogTimeout
         /\ stopIssued = 0
         /\ pendingStop = 0]_vars

C6_StopFailureKeepsOwnResult ==
    /\ stopRes.state = "failed" => ~stopped
    /\ (Returned /\ stopRes.state = "failed") =>
           /\ ret.err = call.err
           /\ ret.err # stopRes.err
           /\ call.err = NoErr => ret.hash = call.hashes[1]
           /\ call.err # NoErr => "generate: error" \in logged
    /\ (pc = "panicked" /\ stopRes.state = "failed") =>
           call.err = NoErr /\ Len(call.hashes) = 0

C6_Witness ==
    /\ pc = "returned"
    /\ stopRes.state = "failed"
    /\ ret.err = NoErr
    /\ ret.hash = "abc123"

\* C7: what generate returns and how long main sleeps afterwards are
\* determined by the result of the generate 1 call alone, so they are the
\* same for an attempt with stopped set and one without.
C7_SuppressionOnlyLogs ==
    /\ Returned => ret = OwnResult
    /\ (pc = "sleeping" /\ call.issued) =>
           sleepArg = IF call.err # NoErr
                      THEN Min(retryDuration, targetBlockTime)
                      ELSE targetBlockTime

C7_Witness ==
    /\ pc = "sleeping"
    /\ stopped
    /\ call.err # NoErr
    /\ "generate: error" \notin logged
    /\ retryDuration < targetBlockTime

\* C8: an error returned without the "generate:" log line is one the remote
\* raised because of the generate 0 of this attempt (stated for the attempts
\* whose call was still pending when the watchdog fired).
C8_SuppressedOnlyIfCausedByStop ==
    (Returned /\ ~doneBeforeFire /\ ret.err # NoErr /\ "generate: error" \notin logged) =>
        ret.err = Err("generate", "stopped")

\* C9: when generate 0 was issued and the generate 1 call then yields a
\* block hash, generate returns that hash without error and main logs one
\* mined block and sleeps targetBlockTime; an error of the call is always
\* returned and never counted as a mined block.
C9_StopRaceReconciled ==
    /\ (Returned /\ stopIssued > 0 /\ call.err = NoErr) =>
           /\ ret.err = NoErr
           /\ ret.hash = call.hashes[1]
    /\ (pc = "sleeping" /\ call.issued /\ stopIssued > 0 /\ call.err = NoErr) =>
           /\ minedLogs = 1
           /\ sleepWhy = "mined"
           /\ sleepArg = targetBlockTime
    /\ (Returned /\ call.err # NoErr) =>
           /\ ret.err = call.err
           /\ minedLogs = 0
    /\ (pc = "panicked" /\ stopIssued > 0) =>
           call.err = NoErr /\ Len(call.hashes) = 0
    /\ minedLogs <= 1

C9_Witness ==
    /\ pc = "sleeping"
    /\ stopRes.state = "ok"
    /\ ~doneBeforeFire
    /\ minedLogs = 1
    /\ ret.hash = "def456"

\* C10: the planning step decides MINE_NOW exactly if now >= T + D, that is
\* if the tip's age is at least targetBlockTime, and otherwise POLL_AGAIN
\* with a sleep of T + D - now.
C10_PlanDecision ==
    /\ pc = "generate" => decision = "MINE_NOW" /\ planAge >= targetBlockTime
    /\ decision = "POLL_AGAIN" =>
           /\ planAge < targetBlockTime
           /\ pc = "sleeping"
           /\ sleepWhy = "poll_again"
           /\ sleepArg = targetBlockTime - planAge
    /\ decision = "MINE_NOW" => pc # "sleeping" \/ call.issued

C10_Witness ==
    /\ pc = "generate"
    /\ planAge = targetBlockTime

\* C11: the loop never mines off a stale plan.  A mine-request is issued
\* only in a cycle whose tip observation succeeded and was planned MINE_NOW
\* with the tip at least targetBlockTime old, with no sleep between the
\* observation and the request; and whenever a sleep ends, the next thing
\* the loop does is observe the tip again, with no plan carried over.
C11_NoStalePlan ==
    /\ [][pendingMine' > pendingMine =>
              /\ calls = <<"getbestblockhash", "getblockheader">>
              /\ pollErr = NoErr
              /\ decision = "MINE_NOW"
              /\ planAge >= targetBlockTime
              /\ sleepWhy = "none"]_vars
    /\ [][pc = "sleeping" /\ pc' # "sleeping" =>
              /\ pc' = "poll"
              /\ decision' = "none"
              /\ calls' = <<>>]_vars

\* a mine-request is about to be issued in the cycle after a POLL_AGAIN sleep
C11_Witness ==
    /\ pc = "generate"
    /\ lastSleep = "poll_again"
    /\ calls = <<"getbestblockhash", "getblockheader">>

\* C12: after a mining attempt that failed, in whatever way, the loop sleeps
\* min(retryDuration, targetBlockTime) before its next cycle, which is never
\* more than targetBlockTime, for every configuration of the two durations
\* and also when the attempt before failed as well.
C12_ErrorSleepBounded ==
    /\ (pc = "sleeping" /\ call.issued /\ ret.err # NoErr) =>
           /\ sleepWhy = "mine_failed"
           /\ sleepArg = Min(retryDuration, targetBlockTime)
           /\ sleepArg <= targetBlockTime
           /\ sleepArg <= retryDuration
           /\ sleepRem <= sleepArg
    /\ sleepWhy = "mine_failed" => call.issued /\ ret.err # NoErr

\* a second failure in a row, with retryDuration above targetBlockTime
C12_Witness ==
    /\ pc = "sleeping"
    /\ sleepWhy = "mine_failed"
    /\ prevAttempt = "deadline"
    /\ retryDuration > targetBlockTime
    /\ sleepArg = targetBlockTime

\* C13: when the tip observation fails, the loop sleeps retryDuration and
\* starts over, without a plan and without a mine-request or a stop-request;
\* n observation failures in a row make n sleeps of retryDuration and no
\* mining attempt.
C13_ObserveFailureRetries ==
    /\ pollErr # NoErr =>
           /\ pc = "sleeping"
           /\ sleepWhy = "observe_failed"
           /\ sleepArg = retryDuration
           /\ sleepRem <= retryDuration
           /\ decision = "none"
           /\ ~call.issued
           /\ stopIssued = 0
           /\ \A i \in 1..Len(calls) : calls[i] \notin {"generate 1", "generate 0"}
    /\ sleepWhy = "observe_failed" => pollErr # NoErr
    /\ retrySleeps = obsFails
    /\ obsFails > 0 =>
           /\ pc \in {"poll", "hash_wait", "header_wait", "sleeping"}
           /\ sleepWhy \in {"none", "observe_failed"}
           /\ ~call.issued
           /\ pendingMine = 0

\* the second observation failure in a row, asleep for retryDuration
C13_Witness ==
    /\ pc = "sleeping"
    /\ sleepWhy = "observe_failed"
    /\ obsFails = 2
    /\ retrySleeps = 2
    /\ lastSleep = "observe_failed"
    /\ retryDuration # targetBlockTime

\* C14: once started the loop runs forever: no error of an observation, of a
\* mine-request or of a stop-request and no outcome of mining ends it, so the
\* program never reaches a state in which the loop has stopped.
C14_LoopNeverEnds == pc # "panicked"

\* C15: every mining attempt resolves in the end: once generate has issued
\* the mine-request it eventually returns a hash or an error, in every
\* branch.
C15_AttemptReturns == (pc = "select") ~> (pc = "returned")

\* what holds instead: the attempt always ends, by generate returning or by
\* its fault on an empty list of hashes
AttemptEnds == (pc = "select") ~> (pc \in {"returned", "panicked"})

\* C16: in pollBestBlockTime the two calls are made one after the other
\* under one deadline; if getbestblockhash fails getblockheader is not
\* called; the failure of either gives an error that names the call that
\* failed, and then no timestamp is returned, so that no plan is made from
\* the zero time.
C16_PollSharedDeadline ==
    /\ pc = "hash_wait" => calls = <<"getbestblockhash">>
    /\ pc \in {"header_wait", "plan"} =>
           /\ calls = <<"getbestblockhash", "getblockheader">>
           /\ pollErr = NoErr
    /\ pc \in {"hash_wait", "header_wait"} =>
           pollCtx = (IF pollElapsed < CallTimeout
                      THEN CallTimeout - pollElapsed ELSE 0)
    /\ pc = "plan" => pollElapsed < CallTimeout
    /\ pollErr # NoErr =>
           /\ Len(pollErr) = 3
           /\ pollErr[1] = calls[Len(calls)]
           /\ pollErr[2] = pollErr[1]
           /\ pollErr[1] = "getbestblockhash" => calls = <<"getbestblockhash">>
           /\ pollErr[1] = "getblockheader" =>
                  calls = <<"getbestblockhash", "getblockheader">>
           /\ pollErr[3] = "deadline exceeded" => pollElapsed >= CallTimeout
           /\ pc = "sleeping"
           /\ decision = "none"
           /\ planAge = 0

\* getblockheader fails at the deadline that began with getbestblockhash
C16_Witness ==
    /\ pollErr = <<"getblockheader", "getblockheader", "deadline exceeded">>
    /\ pollElapsed = CallTimeout
    /\ calls = <<"getbestblockhash", "getblockheader">>

\* C17: whenever the mine-request has resolved successfully and generate is
\* past its result step, generate has returned the first hash of the list
\* and no error; it has not failed or faulted, whatever list of hashes the
\* remote returned.
C17_SuccessReturnsFirstHash ==
    (call.issued /\ call.done /\ call.err = NoErr
         /\ pc \notin {"select", "stop_wait", "wait_done", "result"}) =>
        /\ pc \in {"returned", "sleeping"}
        /\ ret.err = NoErr
        /\ Len(call.hashes) > 0
        /\ ret.hash = call.hashes[1]

\* C18: after a successful attempt the loop sleeps exactly targetBlockTime
\* before the next tip observation; the next-poll instant it logs, truncated
\* to the log's granularity, does not change the duration slept, so the next
\* mine-request is never issued earlier than targetBlockTime after the
\* success.
C18_SuccessSleepExact ==
    /\ (sleepWhy = "mined") =>
           /\ pc = "sleeping"
           /\ ret.err = NoErr
           /\ sleepArg = targetBlockTime
           /\ sleepRem = (IF sinceMined < targetBlockTime
                          THEN targetBlockTime - sinceMined ELSE 0)
           /\ nextPoll <= sleepArg
    /\ (pc = "sleeping" /\ call.issued /\ ret.err = NoErr) => sleepWhy = "mined"
    /\ (sinceMined >= 0 /\ pc # "sleeping") => sinceMined >= targetBlockTime
    /\ (lastSleep = "mined" /\ pc \in {"hash_wait", "header_wait", "plan", "generate"})
           => sinceMined >= targetBlockTime

\* asleep after a mined block: the instant that was logged has come, and the
\* sleep of targetBlockTime still has time left
C18_Witness ==
    /\ pc = "sleeping"
    /\ sleepWhy = "mined"
    /\ sleepRem = 1
    /\ nextPoll = 1
    /\ sinceMined = 1
    /\ targetBlockTime = 2

C20_CallOrder ==
    /\ [](/\ Len(calls) <= 4
          /\ \A i \in 1..Len(calls) :
                 calls[i] = <<"getbestblockhash", "getblockheader",
                              "generate 1", "generate 0">>[i]
          /\ (pollErr # NoErr \/ decision = "POLL_AGAIN") => Len(calls) <= 2
          /\ pc # "poll" => Len(calls) >= 1
          /\ stopIssued > 0 <=> Len(calls) = 4
          /\ call.issued <=> Len(calls) >= 3)
    /\ [][calls' # calls =>
              IF calls' = <<>>
              THEN pc = "sleeping" /\ sleepRem = 0
              ELSE calls' = Append(calls, calls'[Len(calls')])]_vars
    /\ [][(calls' # calls /\ calls' = <<"getbestblockhash">>)
              => (pc = "poll" /\ calls = <<>>)]_vars
    /\ [][(pc' = "poll" /\ pc # "poll") =>
              (pc = "sleeping" /\ sleepWhy # "none" /\ sleepRem = 0)]_vars

\* a cycle that made all four calls
C20_Witness ==
    /\ calls = <<"getbestblockhash", "getblockheader", "generate 1", "generate 0">>
    /\ pc = "sleeping"
    /\ stopRes.state = "ok"

====
